---- MODULE Spec2Model ----
(***************************************************************************)
(* Fine Offset Electronics WH55 water leak sensor decoder                  *)
(* (src/devices/fineoffset_wh55.c, fineoffset_wh55_decode).                *)
(*                                                                         *)
(* One call of the decoder on row 0 of a bitbuffer is modelled as a        *)
(* sequence of steps, one per statement group of the function.  The row    *)
(* is a sequence of bits; bytes are integers 0..255 and the frame b is a   *)
(* function 0..9 -> byte, indexed as in the C code.                        *)
(***************************************************************************)
EXTENDS Integers, Sequences, FiniteSets

(***************************************************************************)
(* Bit arithmetic on bytes.                                                *)
(***************************************************************************)
Pow2(k) == CASE k = 0 -> 1 [] k = 1 -> 2 [] k = 2 -> 4 [] k = 3 -> 8
             [] k = 4 -> 16 [] k = 5 -> 32 [] k = 6 -> 64 [] k = 7 -> 128
             [] OTHER -> 256

\* bit k (0 = least significant) of x
BitOf(x, k) == (x \div Pow2(k)) % 2

\* x ^ y on 8-bit values
Xor8(x, y) ==
    LET d(k) == ((BitOf(x, k) + BitOf(y, k)) % 2) * Pow2(k)
    IN  d(0) + d(1) + d(2) + d(3) + d(4) + d(5) + d(6) + d(7)

\* x & y on 8-bit values
And8(x, y) ==
    LET d(k) == (BitOf(x, k) * BitOf(y, k)) * Pow2(k)
    IN  d(0) + d(1) + d(2) + d(3) + d(4) + d(5) + d(6) + d(7)

\* the 8 bits of a byte, most significant first (the order of a bitbuffer row)
ByteBits(x) == [i \in 1..8 |-> BitOf(x, 8 - i)]

(***************************************************************************)
(* Primitives the decoder calls (util.c, bitbuffer.c).                     *)
(***************************************************************************)
\* one shift step of crc8: remainder <<= 1, xor the polynomial when bit 7 was set
Crc8Shift(remainder, polynomial) ==
    IF BitOf(remainder, 7) = 1
    THEN Xor8((remainder * 2) % 256, polynomial)
    ELSE (remainder * 2) % 256

\* the eight shift steps crc8 makes for one message byte
Crc8Byte(remainder, polynomial) ==
    Crc8Shift(Crc8Shift(Crc8Shift(Crc8Shift(Crc8Shift(Crc8Shift(Crc8Shift(Crc8Shift(
        remainder, polynomial), polynomial), polynomial), polynomial),
        polynomial), polynomial), polynomial), polynomial)

\* crc8(message, nBytes, polynomial, init): message is a function 0..nBytes-1 -> byte.
\* (The remainder after each byte is bound through a one-element set, so that it is
\* a computed value before the next byte is taken up.)
RECURSIVE Crc8From(_, _, _, _, _)
Crc8From(message, i, nBytes, polynomial, remainder) ==
    IF i >= nBytes THEN remainder
    ELSE CHOOSE res \in
            {Crc8From(message, i + 1, nBytes, polynomial, r) :
                r \in {Crc8Byte(Xor8(remainder, message[i]), polynomial)}} : TRUE

crc8(message, nBytes, polynomial, init) ==
    Crc8From(message, 0, nBytes, polynomial, init)

\* add_bytes(message, num_bytes): the plain integer sum of the bytes
RECURSIVE add_bytes(_, _)
add_bytes(message, num_bytes) ==
    IF num_bytes = 0 THEN 0
    ELSE message[num_bytes - 1] + add_bytes(message, num_bytes - 1)

\* whether the pattern occurs in the row at bit offset pos (0-based)
MatchAt(row, pos, pattern, pattern_bits_len) ==
    /\ pos + pattern_bits_len <= Len(row)
    /\ \A i \in 1..pattern_bits_len : row[pos + i] = pattern[i]

\* bitbuffer_search(bitbuffer, row, start, pattern, pattern_bits_len): the offset
\* of the first occurrence at or after start, or the row length when there is none
bitbuffer_search(row, start, pattern, pattern_bits_len) ==
    LET last == Len(row) - pattern_bits_len
    IN  IF \E p \in start..last : MatchAt(row, p, pattern, pattern_bits_len)
        THEN CHOOSE p \in start..last :
                /\ MatchAt(row, p, pattern, pattern_bits_len)
                /\ \A q \in start..(p - 1) : ~MatchAt(row, q, pattern, pattern_bits_len)
        ELSE Len(row)

\* bitbuffer_extract_bytes(bitbuffer, row, pos, out, len): len bits from bit
\* offset pos repacked into bytes, whatever the alignment of pos
bitbuffer_extract_bytes(row, pos, len) ==
    [i \in 0..((len \div 8) - 1) |->
        LET bt(k) == row[pos + 8 * i + k]
        IN  128 * bt(1) + 64 * bt(2) + 32 * bt(3) + 16 * bt(4)
            + 8 * bt(5) + 4 * bt(6) + 2 * bt(7) + bt(8)]

(***************************************************************************)
(* Constants of the decoder.                                               *)
(***************************************************************************)
MIN_LEN == 150
MAX_LEN == 220

\* uint8_t const preamble[] = {0xaa, 0x2d, 0xd4}, as 24 bits
preamble == ByteBits(170) \o ByteBits(45) \o ByteBits(212)

\* sizeof(b) * 8
FRAME_BITS == 80

DECODE_ABORT_LENGTH == "DECODE_ABORT_LENGTH"
DECODE_ABORT_EARLY  == "DECODE_ABORT_EARLY"
DECODE_FAIL_MIC     == "DECODE_FAIL_MIC"
RETURN_1            == "1"
NOT_RETURNED        == "running"

(***************************************************************************)
(* The conditions and expressions of fineoffset_wh55_decode.               *)
(***************************************************************************)
\* (the window taken exclusive of its ends)
LengthOutOfRange_OffByOne(n) == n <= MIN_LEN \/ n >= MAX_LEN

\* bits_per_row[0] < MIN_LEN || bits_per_row[0] > MAX_LEN
LengthOutOfRange(n) == n < MIN_LEN \/ n > MAX_LEN

\* (a frame that ends with the row taken as short)
ShortPackage_OffByOne(off, n) == off + FRAME_BITS >= n

\* bit_offset + sizeof(b) * 8 > bits_per_row[0]
ShortPackage(off, n) == off + FRAME_BITS > n

\* (the family code of the sibling layout, 0x45, checked for)
FamilyMismatch_Sibling(frame) == frame[0] # 69

\* b[0] != 0x55
FamilyMismatch(frame) == frame[0] # 85

\* uint8_t crc = crc8(b, 8, 0x31, 0x00)
ComputedCrc(frame) == crc8(frame, 8, 49, 0)

\* uint8_t chk = add_bytes(b, 9): the int result narrowed to uint8_t
ComputedChk(frame) == add_bytes(frame, 9) % 256

\* (&& for ||: rejected only when both differ)
MicFails_Both(frame, c, k) == c # frame[8] /\ k # frame[9]

\* (the checksum byte not compared)
MicFails_CrcOnly(frame, c, k) == c # frame[8]

\* crc != b[8] || chk != b[9]
MicFails(frame, c, k) == c # frame[8] \/ k # frame[9]

\* ((b[1] & 0x0F) << 16) | (b[2] << 8) | (b[3])
DeviceId(frame) == And8(frame[1], 15) * 65536 + frame[2] * 256 + frame[3]

\* (the channel left zero-based)
Channel_ZeroBased(frame) == frame[1] \div 16

\* (b[1] >> 4) + 1
Channel(frame) == (frame[1] \div 16) + 1

\* !(b[5] & 0x02)
Alarm(frame) == IF And8(frame[5], 2) = 0 THEN 1 ELSE 0

\* (the bars taken from byte 5)
BatteryBars_Byte5(frame) == And8(frame[5], 15)

\* (b[4] & 0x0F)
BatteryBars(frame) == And8(frame[4], 15)

\* (b[4] << 8) | b[5]
AlarmRaw(frame) == frame[4] * 256 + frame[5]

\* (b[6] << 8) | b[7]
Raw(frame) == frame[6] * 256 + frame[7]

\* (MIN(battery_bars * 0.2f, 1.0f))
BatteryOk_Clamped(bars) == IF bars * 2 > 10 THEN 10 ELSE bars * 2

\* battery_bars * 0.2f, held in tenths (the "%.1f" the record is printed with)
BatteryOk(bars) == bars * 2

\* data_make(...): the record handed to decoder_output_data
MakeData(frame) ==
    [model      |-> "Fineoffset-wh55",
     id         |-> DeviceId(frame),
     channel    |-> Channel(frame),
     battery_ok |-> BatteryOk(BatteryBars(frame)),
     alarm      |-> Alarm(frame),
     alarm_raw  |-> AlarmRaw(frame),
     raw        |-> Raw(frame),
     mic        |-> "CRC"]

(***************************************************************************)
(* The transmissions the decoder is run on.  A row is the first len bits   *)
(* of: lead bits of the alternating preamble run (ending in 0, as in       *)
(* ...aaaa), the 24-bit sync pattern (or 24 more preamble bits when the    *)
(* transmission carries no sync), the 80 bits of a frame, optionally a     *)
(* second sync pattern and frame, then zeros.                              *)
(***************************************************************************)
\* number of bit alignments of the frame tried beyond the first (0..MaxShift)
MaxShift == 8
\* row lengths tried on each side of MIN_LEN and MAX_LEN
Margin == 2
\* bits following the frame in a full capture (the samples carry 11)
TrailBits == 11
\* device ids tried, besides the one of the samples (0..MaxIdK)
MaxIdK == 1
\* frames whose single-bit corruptions are tried (0..MaxBase)
MaxBase == 1

\* a frame laid out as the packet layout says, with its CRC and checksum:
\* YY C IIIII 0B AA UU UU XX CC
BuildFrame(family, chanNibble, deviceId, battery, alarmByte, r1hi, r1lo) ==
    LET head == [i \in 0..7 |->
                    CASE i = 0 -> family
                      [] i = 1 -> chanNibble * 16 + (deviceId \div 65536)
                      [] i = 2 -> (deviceId \div 256) % 256
                      [] i = 3 -> deviceId % 256
                      [] i = 4 -> battery
                      [] i = 5 -> alarmByte
                      [] i = 6 -> r1hi
                      [] OTHER -> r1lo]
        x    == crc8(head, 8, 49, 0)
        h9   == [i \in 0..8 |-> IF i = 8 THEN x ELSE head[i]]
        c    == add_bytes(h9, 9) % 256
    IN  [i \in 0..9 |-> IF i = 9 THEN c ELSE h9[i]]

\* the frame with bit k (0 = first bit on air, the top bit of byte 0) flipped
FlipBit(frame, k) ==
    [i \in 0..9 |-> IF i = k \div 8 THEN Xor8(frame[i], Pow2(7 - (k % 8)))
                    ELSE frame[i]]

\* the frame with byte i replaced by v
WithByte(frame, i, v) == [frame EXCEPT ![i] = v]

\* the frame with a wrong CRC byte and the checksum recomputed over it
WrongCrcOnly(frame) ==
    LET g == WithByte(frame, 8, Xor8(frame[8], 255))
    IN  WithByte(g, 9, add_bytes(g, 9) % 256)

\* 55 0 107a4 05 02 df be a4 49   # channel 1
SampleA == <<85, 1, 7, 164, 5, 2, 223, 190, 164, 73>>
\* 55 3 107a4 02 80 ac bf 78 7f   # channel 4 / high sensitivity / ALARM
SampleB == <<85, 49, 7, 164, 2, 128, 172, 191, 120, 127>>
\* 55 3 107a4 05 01 94 fe 60 29   # channel 4 / low sensitivity / ALARM
SampleC == <<85, 49, 7, 164, 5, 1, 148, 254, 96, 41>>

\* a sample of the doc comment as the frame b (indexed from 0)
FrameOf(bytes) == [i \in 0..9 |-> bytes[i + 1]]

\* the device ids tried: 0x107a4 of the samples, 0xfffff, 0, then multiples of 0x11111
IdOf(k) == CASE k = 0 -> 67492 [] k = 1 -> 1048575 [] k = 2 -> 0
             [] OTHER -> (k * 69905) % 1048576

\* the 80 bits of a frame in the order they are sent
FrameBits(frame) == [j \in 1..FRAME_BITS |-> BitOf(frame[(j - 1) \div 8], 7 - ((j - 1) % 8))]

\* the row of a transmission: its first n bits
Row(lead, n, sync, frame, second, frame2) ==
    LET fb  == FrameBits(frame)
        fb2 == FrameBits(frame2)
        s1  == lead + 24
        f1  == s1 + FRAME_BITS
        s2  == f1 + 24
        f2  == s2 + FRAME_BITS
    IN  [i \in 1..n |->
            IF i <= lead THEN (lead - i) % 2
            ELSE IF i <= s1 THEN (IF sync THEN preamble[i - lead] ELSE (i - lead) % 2)
            ELSE IF i <= f1 THEN fb[i - s1]
            ELSE IF second /\ i <= s2 THEN preamble[i - f1]
            ELSE IF second /\ i <= f2 THEN fb2[i - s2]
            ELSE 0]

\* the shortest lead that leaves room for sync and frame in a row of MIN_LEN bits
LeadBase == MIN_LEN - 24 - FRAME_BITS

\* the bit alignments tried
Shifts == 0..MaxShift

\* byte 5 values tried: bit 0x02 clear and set, alone and among the other bits
AlarmBytes == {0, 2, 253, 255}

\* byte 4 values tried: every low nibble, and two with bits in the high nibble
BatteryBytes == (0..15) \cup {22, 245}

\* family bytes tried: 0x55, 0x45 of the sibling layout, and one bit off 0x55
Families == {85, 69, 84}

(***************************************************************************)
(* State of one call.                                                      *)
(***************************************************************************)
VARIABLES
    bits,        \* bitbuffer->bb[0], bits_per_row[0] = Len(bits)
    pc,          \* the statement the call is at
    bit_offset,  \* unsigned bit_offset
    b,           \* uint8_t b[10]
    crc,         \* uint8_t crc
    chk,         \* uint8_t chk
    ret,         \* the value returned, NOT_RETURNED until then
    out,         \* the records handed to decoder_output_data, in order
    calls,       \* the primitives called so far, in order
    tc           \* how the transmission was built (never read by the decoder)

vars == <<bits, pc, bit_offset, b, crc, chk, ret, out, calls, tc>>

\* the fields a transmission was built from, where it was built from fields
NoFields == [chan |-> -1, id |-> -1, batt |-> -1, alarmByte |-> -1,
             r1hi |-> -1, r1lo |-> -1, flip |-> -1, base |-> -1]

\* the state at entry of fineoffset_wh55_decode on the given transmission; b, crc
\* and chk are not yet written and are not read before they are
Entry(kind, lead, n, sync, frame, second, frame2, p) ==
    /\ bits = Row(lead, n, sync, frame, second, frame2)
    /\ pc = "gate"
    /\ bit_offset = 0
    /\ b = [i \in 0..9 |-> 0]
    /\ crc = 0
    /\ chk = 0
    /\ ret = NOT_RETURNED
    /\ out = <<>>
    /\ calls = <<>>
    /\ tc = [kind |-> kind, lead |-> lead, sync |-> sync, frame |-> frame, p |-> p]

\* rows of every length around the window, with and without the sync pattern,
\* cut anywhere in or after the frame
InitFraming ==
    \E lead \in (LeadBase - Margin)..(LeadBase + MaxShift),
       n \in ((MIN_LEN - Margin)..(MIN_LEN + MaxShift + Margin))
             \cup ((MAX_LEN - Margin)..(MAX_LEN + Margin))
             \cup {0, 23, 24, 91, 104, 300},
       sync \in BOOLEAN,
       family \in {85, 69} :
        LET frame == BuildFrame(family, 0, IdOf(0), 5, 2, 223, 190)
        IN  Entry("framing", lead, n, sync, frame, FALSE, frame, NoFields)

\* full captures of correctly built frames, over the field values and alignments
InitRoundTrip ==
    \E chan \in 0..15, batt \in BatteryBytes, idk \in 0..MaxIdK, alarmByte \in AlarmBytes :
        LET lead  == LeadBase + ((chan + batt + idk + alarmByte) % (MaxShift + 1))
            r1hi  == chan * 16 + (batt % 16)
            r1lo  == 255 - ((batt % 16) * 16 + chan)
            frame == BuildFrame(85, chan, IdOf(idk), batt, alarmByte, r1hi, r1lo)
        IN  Entry("roundtrip", lead, lead + 24 + FRAME_BITS + TrailBits, TRUE,
                  frame, FALSE, frame,
                  [NoFields EXCEPT !.chan = chan, !.id = IdOf(idk), !.batt = batt,
                                   !.alarmByte = alarmByte, !.r1hi = r1hi, !.r1lo = r1lo])

\* the frames whose corruptions are tried
BaseFrame(k) == BuildFrame(85, (3 + 5 * k) % 16, IdOf(k), (5 + k) % 16,
                           (2 + k) % 256, (223 + 7 * k) % 256, (190 + 11 * k) % 256)

\* full captures of a correctly built frame with one bit flipped
InitFlipped ==
    \E base \in 0..MaxBase, k \in 0..(FRAME_BITS - 1) :
        LET lead  == LeadBase + ((k + base) % (MaxShift + 1))
            frame == FlipBit(BaseFrame(base), k)
        IN  Entry("flipped", lead, lead + 24 + FRAME_BITS + TrailBits, TRUE,
                  frame, FALSE, frame, [NoFields EXCEPT !.flip = k, !.base = base])

\* full captures of frames of each family byte with the CRC byte, the checksum
\* byte, both or neither wrong
InitIntegrity ==
    \E family \in Families, lead \in LeadBase..(LeadBase + MaxShift),
       badcrc \in BOOLEAN, badchk \in BOOLEAN :
        LET good  == BuildFrame(family, 2, IdOf(0), 5, 2, 230, 190)
            f1    == IF badcrc THEN WrongCrcOnly(good) ELSE good
            frame == IF badchk THEN WithByte(f1, 9, Xor8(f1[9], 1)) ELSE f1
        IN  Entry("integrity", lead, lead + 24 + FRAME_BITS + TrailBits, TRUE,
                  frame, FALSE, frame, NoFields)

\* full captures of the samples of the doc comment
InitSample ==
    \E name \in {"A", "B", "C"}, lead \in LeadBase..(LeadBase + MaxShift) :
        LET frame == FrameOf(CASE name = "A" -> SampleA [] name = "B" -> SampleB
                               [] OTHER -> SampleC)
        IN  Entry("sample" \o name, lead, lead + 24 + FRAME_BITS + TrailBits, TRUE,
                  frame, FALSE, frame, NoFields)

\* rows with two sync patterns, each followed by a whole frame, the second frame valid
InitTwoSync ==
    \E lead \in Shifts, family \in Families, badcrc \in BOOLEAN :
        LET good  == BuildFrame(family, 7, IdOf(1), 3, 0, 1, 2)
            frame == IF badcrc THEN WrongCrcOnly(good) ELSE good
        IN  Entry("twosync", lead, lead + 2 * (24 + FRAME_BITS), TRUE,
                  frame, TRUE, FrameOf(SampleA), NoFields)

Init ==
    \/ InitFraming
    \/ InitRoundTrip
    \/ InitFlipped
    \/ InitIntegrity
    \/ InitSample
    \/ InitTwoSync

(***************************************************************************)
(* The steps of fineoffset_wh55_decode.                                    *)
(***************************************************************************)
\* if (bits_per_row[0] < MIN_LEN || bits_per_row[0] > MAX_LEN) return DECODE_ABORT_LENGTH;
LengthGate ==
    /\ pc = "gate"
    /\ IF LengthOutOfRange(Len(bits))
       THEN pc' = "done" /\ ret' = DECODE_ABORT_LENGTH
       ELSE pc' = "search" /\ ret' = ret
    /\ UNCHANGED <<bits, bit_offset, b, crc, chk, out, calls, tc>>

\* unsigned bit_offset = bitbuffer_search(bitbuffer, 0, 0, preamble, 24) + 24;
SyncSearch ==
    /\ pc = "search"
    /\ bit_offset' = bitbuffer_search(bits, 0, preamble, 24) + 24
    /\ calls' = Append(calls, "bitbuffer_search")
    /\ pc' = "guard"
    /\ UNCHANGED <<bits, b, crc, chk, ret, out, tc>>

\* if (bit_offset + sizeof(b) * 8 > bits_per_row[0]) return DECODE_ABORT_LENGTH;
TruncationGuard ==
    /\ pc = "guard"
    /\ IF ShortPackage(bit_offset, Len(bits))
       THEN pc' = "done" /\ ret' = DECODE_ABORT_LENGTH
       ELSE pc' = "extract" /\ ret' = ret
    /\ UNCHANGED <<bits, bit_offset, b, crc, chk, out, calls, tc>>

\* bitbuffer_extract_bytes(bitbuffer, 0, bit_offset, b, sizeof(b) * 8);
ExtractFrame ==
    /\ pc = "extract"
    /\ b' = bitbuffer_extract_bytes(bits, bit_offset, FRAME_BITS)
    /\ calls' = Append(calls, "bitbuffer_extract_bytes")
    /\ pc' = "family"
    /\ UNCHANGED <<bits, bit_offset, crc, chk, ret, out, tc>>

\* if (b[0] != 0x55) return DECODE_ABORT_EARLY;
FamilyCheck ==
    /\ pc = "family"
    /\ IF FamilyMismatch(b)
       THEN pc' = "done" /\ ret' = DECODE_ABORT_EARLY
       ELSE pc' = "mic" /\ ret' = ret
    /\ UNCHANGED <<bits, bit_offset, b, crc, chk, out, calls, tc>>

\* crc = crc8(b, 8, 0x31, 0x00); chk = add_bytes(b, 9);
\* if (crc != b[8] || chk != b[9]) return DECODE_FAIL_MIC;
VerifyMic ==
    /\ pc = "mic"
    /\ crc' = ComputedCrc(b)
    /\ chk' = ComputedChk(b)
    /\ calls' = calls \o <<"crc8", "add_bytes">>
    /\ IF MicFails(b, crc', chk')
       THEN pc' = "done" /\ ret' = DECODE_FAIL_MIC
       ELSE pc' = "fields" /\ ret' = ret
    /\ UNCHANGED <<bits, bit_offset, b, out, tc>>

\* the field expressions, data_make, decoder_output_data(decoder, data); return 1;
OutputData ==
    /\ pc = "fields"
    /\ out' = Append(out, MakeData(b))
    /\ calls' = calls \o <<"data_make", "decoder_output_data">>
    /\ ret' = RETURN_1
    /\ pc' = "done"
    /\ UNCHANGED <<bits, bit_offset, b, crc, chk, tc>>

Next ==
    \/ LengthGate
    \/ SyncSearch
    \/ TruncationGuard
    \/ ExtractFrame
    \/ FamilyCheck
    \/ VerifyMic
    \/ OutputData

Spec == Init /\ [][Next]_vars

(***************************************************************************)
(* What the properties below speak of.                                     *)
(***************************************************************************)
\* the call has returned
Done == pc = "done"

\* the call has made this primitive call
Called(name) == \E i \in 1..Len(calls) : calls[i] = name

\* bit offsets at which the 24-bit sync pattern 0xAA2DD4 occurs in the row
SyncOffsets == {p \in 0..(Len(bits) - 24) : MatchAt(bits, p, preamble, 24)}

\* offset of the first occurrence of the sync pattern; -1 when it does not occur
FirstSync ==
    LET so == SyncOffsets
    IN  IF so = {} THEN -1 ELSE CHOOSE p \in so : \A q \in so : p <= q

\* bits of the row that follow the first occurrence of the sync pattern
BitsAfterSync == Len(bits) - (FirstSync + 24)

\* the row length passes the length gate
InWindow == Len(bits) >= 150 /\ Len(bits) <= 220

\* the frame written in b has a CRC byte (a checksum byte) that matches
CrcMatches == crc8(b, 8, 49, 0) = b[8]
ChkMatches == (b[0] + b[1] + b[2] + b[3] + b[4] + b[5] + b[6] + b[7] + b[8]) % 256 = b[9]

\* the value returned is one of the failure values
Failed == ret \in {DECODE_ABORT_LENGTH, DECODE_ABORT_EARLY, DECODE_FAIL_MIC}

(***************************************************************************)
(* C1.  A record is emitted only for a frame whose CRC byte and checksum   *)
(* byte both match: the record is handed over exactly when 1 is returned,  *)
(* exactly one record then, built from the frame extracted after the sync  *)
(* pattern; every failure return, and every state before the return,      *)
(* leaves no record at all.                                                *)
(***************************************************************************)
C1_EmitOnlyValidated ==
    /\ Len(out) <= 1
    /\ ~Done => out = <<>> /\ ret = NOT_RETURNED
    /\ Done => ret = RETURN_1 \/ Failed
    /\ Done /\ Failed => out = <<>>
    /\ Done /\ ret = RETURN_1 => Len(out) = 1
    /\ Len(out) = 1 =>
          /\ Done /\ ret = RETURN_1
          /\ Called("bitbuffer_extract_bytes")
          /\ b[0] = 85
          /\ CrcMatches
          /\ ChkMatches

C1_Witness ==
    /\ Done /\ ret = RETURN_1 /\ Len(out) = 1
    /\ CrcMatches /\ ChkMatches

ShortAfter(fs) == fs < 0 \/ Len(bits) - (fs + 24) < 80

C4_FamilyMismatch ==
    InWindow /\ pc \in {"mic", "fields", "done"} =>
        \A fs \in {FirstSync} :
            /\ fs >= 0 /\ Len(bits) - (fs + 24) >= 80
            /\ bitbuffer_extract_bytes(bits, fs + 24, 8)[0] # 85
            => /\ Done
               /\ ret = DECODE_ABORT_EARLY
               /\ calls = <<"bitbuffer_search", "bitbuffer_extract_bytes">>
               /\ out = <<>>

\* a frame of family 0x45 with matching CRC and checksum, and later in the row a
\* second sync pattern followed by the valid 0x55 frame of sample A
C4_Witness ==
    /\ Done /\ ret = DECODE_ABORT_EARLY
    /\ b[0] = 69 /\ CrcMatches /\ ChkMatches
    /\ \E p \in SyncOffsets :
          /\ p > FirstSync
          /\ p + 24 + 80 <= Len(bits)
          /\ bitbuffer_extract_bytes(bits, p + 24, 80) = FrameOf(SampleA)

(***************************************************************************)
(* C5.  For an extracted frame with b[0] = 0x55: the call returns          *)
(* DECODE_FAIL_MIC exactly when the CRC-8 (polynomial 0x31, initial value  *)
(* 0x00) of b[0..7] differs from b[8] or the sum of b[0..8] modulo 256     *)
(* differs from b[9]; otherwise it decodes the fields and returns 1.       *)
(***************************************************************************)
C5_Integrity ==
    Called("bitbuffer_extract_bytes") /\ b[0] = 85 /\ pc \in {"fields", "done"} =>
        /\ crc = crc8(b, 8, 49, 0)
        /\ chk = (b[0] + b[1] + b[2] + b[3] + b[4] + b[5] + b[6] + b[7] + b[8]) % 256
        /\ pc = "fields" => CrcMatches /\ ChkMatches
        /\ Done => (ret = DECODE_FAIL_MIC <=> (~CrcMatches \/ ~ChkMatches))
        /\ Done => (ret = RETURN_1 <=> (CrcMatches /\ ChkMatches))
        /\ Done /\ ret = DECODE_FAIL_MIC => out = <<>>

\* a frame whose CRC byte matches and whose checksum byte does not
C5_Witness ==
    /\ Done /\ Called("bitbuffer_extract_bytes") /\ b[0] = 85
    /\ CrcMatches /\ ~ChkMatches
    /\ ret = DECODE_FAIL_MIC

(***************************************************************************)
(* C6.  A validly framed transmission with exactly one bit of the frame    *)
(* flipped.                                                                *)
(* C6_Original: whichever of the 80 bits is flipped, the call returns      *)
(* DECODE_FAIL_MIC.                                                        *)
(* C6_Amended: a flip in bytes 1 to 9 makes the call return                *)
(* DECODE_FAIL_MIC; a flip in byte 0 makes it return DECODE_ABORT_EARLY,   *)
(* the family check coming first.  No record is emitted either way.        *)
(***************************************************************************)
C6_Original ==
    tc.kind = "flipped" /\ Done => ret = DECODE_FAIL_MIC

C6_Amended ==
    tc.kind = "flipped" /\ Done =>
        LET g == BaseFrame(tc.p.base)
        IN  /\ g[0] = 85 /\ crc8(g, 8, 49, 0) = g[8]
            /\ (g[0] + g[1] + g[2] + g[3] + g[4] + g[5] + g[6] + g[7] + g[8]) % 256 = g[9]
            /\ Cardinality({j \in 0..79 :
                    BitOf(b[j \div 8], 7 - (j % 8)) # BitOf(g[j \div 8], 7 - (j % 8))}) = 1
            /\ BitOf(b[tc.p.flip \div 8], 7 - (tc.p.flip % 8))
                    # BitOf(g[tc.p.flip \div 8], 7 - (tc.p.flip % 8))
            /\ ret = (IF tc.p.flip < 8 THEN DECODE_ABORT_EARLY ELSE DECODE_FAIL_MIC)
            /\ out = <<>>

\* a bit of the CRC byte flipped
C6_Witness ==
    /\ tc.kind = "flipped" /\ Done
    /\ tc.p.flip \div 8 = 8
    /\ ret = DECODE_FAIL_MIC

(***************************************************************************)
(* C7.  Round trip: a frame built from a channel nibble, a 20-bit device   *)
(* id, a battery byte, an alarm byte and two reserved bytes, with its CRC  *)
(* and checksum, placed right after the first sync pattern at any bit      *)
(* offset of a row that passes the length gate, decodes to exactly those:  *)
(* id, channel nibble + 1, bars = battery & 0x0F (battery_ok = bars x      *)
(* 0.2), alarm = 1 exactly when bit 0x02 of the alarm byte is clear, and   *)
(* the reserved fields (b[4] << 8) | b[5] and (b[6] << 8) | b[7].          *)
(***************************************************************************)
C7_RoundTrip ==
    tc.kind = "roundtrip" /\ Done =>
        /\ InWindow
        /\ FirstSync = tc.lead
        /\ ret = RETURN_1
        /\ Len(out) = 1
        /\ out[1].model = "Fineoffset-wh55"
        /\ out[1].id = tc.p.id
        /\ out[1].channel = tc.p.chan + 1
        /\ out[1].battery_ok = 2 * (tc.p.batt % 16)
        /\ out[1].alarm = (IF (tc.p.alarmByte \div 2) % 2 = 0 THEN 1 ELSE 0)
        /\ out[1].alarm_raw = tc.p.batt * 256 + tc.p.alarmByte
        /\ out[1].raw = tc.p.r1hi * 256 + tc.p.r1lo
        /\ out[1].mic = "CRC"

\* channel nibble 15 and id 0xfffff, the frame not on a byte boundary, alarm on
C7_Witness ==
    /\ tc.kind = "roundtrip" /\ Done /\ ret = RETURN_1
    /\ (FirstSync + 24) % 8 # 0
    /\ tc.p.chan = 15 /\ tc.p.id = 1048575 /\ tc.p.alarmByte = 253
    /\ Len(out) = 1 /\ out[1].channel = 16 /\ out[1].id = 1048575 /\ out[1].alarm = 1

(***************************************************************************)
(* C8.  Sample A, 55 01 07 a4 05 02 df be a4 49 after the sync pattern in  *)
(* a row that passes the length gate: CRC and checksum match and a record  *)
(* with id 0x107a4 and channel 1 is emitted.                               *)
(* C8_Original: its battery_ok is 0.4 (2 bars).                            *)
(* C8_Amended: its battery_ok is 1.0 (5 bars, the low nibble of byte 4,    *)
(* 0x05).                                                                  *)
(***************************************************************************)
C8_Original ==
    tc.kind = "sampleA" /\ Done =>
        /\ b = FrameOf(SampleA) /\ CrcMatches /\ ChkMatches
        /\ ret = RETURN_1 /\ Len(out) = 1
        /\ out[1].id = 67492
        /\ out[1].channel = 1
        /\ out[1].battery_ok = 4

C8_Amended ==
    tc.kind = "sampleA" /\ Done =>
        /\ b = FrameOf(SampleA) /\ CrcMatches /\ ChkMatches
        /\ ret = RETURN_1 /\ Len(out) = 1
        /\ out[1].id = 67492
        /\ out[1].channel = 1
        /\ out[1].battery_ok = 10

C8_Witness ==
    /\ tc.kind = "sampleA" /\ Done /\ InWindow
    /\ b = FrameOf(SampleA)
    /\ Len(out) = 1 /\ out[1].battery_ok = 10

====
